---- MODULE Spec2Model ----
(***************************************************************************)
(* Model of trading-terminal-backend.py: the three data endpoints          *)
(* /api/options, /api/iv-surface and /api/term-structure, each a request   *)
(* handler that reads the upstream provider (yfinance) and reshapes it.    *)
(*                                                                         *)
(* Numbers.  Strikes and prices are integers.  An implied volatility is an *)
(* integer count of 1e-5 (20000 is 0.20000); a value rounded to 4 decimal  *)
(* places (round(x, 4)) is an integer count of 1e-4.  A field of an        *)
(* upstream row is a number, NaN (missing) or malformed (a value float()   *)
(* or math.isnan() raises on).                                             *)
(***************************************************************************)
EXTENDS Integers, Sequences, FiniteSets, TLC

VARIABLES
    last_price,    \* upstream: outcome of t.fast_info.last_price
    hist,          \* upstream: outcome of t.history(period='1d')
    expirations,   \* upstream: t.options with, per date, its dte and chain
    pc,            \* each handler's position
    price,         \* each handler's local `price`
    idx,           \* each handler's loop position (1-based)
    surface,       \* iv_surface: the list being built
    raw_term,      \* term_structure: the list being built
    term_map,      \* term_structure: the tenor mapping being built
    chains,        \* options: the normalised chains
    chain_calls,   \* the t.option_chain(exp_date) calls made: <<endpoint, index>>
    resp           \* each handler's response: status and error annotation

vars == <<last_price, hist, expirations, pc, price, idx, surface, raw_term,
          term_map, chains, chain_calls, resp>>

upstream == <<last_price, hist, expirations>>

Endpoints == {"options", "iv_surface", "term_structure"}

(***************************************************************************)
(* Bounds of the model and constants of the program.                       *)
(***************************************************************************)
MaxCalls == 2
MaxPuts == 1
MaxTenorExp == 2
MaxLongExp == 9
MaxMixExp == 2

OptionsMaxExp == 4
SurfaceMaxExp == 6
TermMaxExp == 8
BandLoE4 == 8000
BandHiE4 == 12000
Scale4 == 10000
IvPerE4 == 10
Tenor1W == 10
Tenor2W == 20
Tenor1M == 45
Tenor2M == 75
Tenor3M == 120

(***************************************************************************)
(* Helpers on sequences.                                                   *)
(***************************************************************************)
Prefix(s, n) == IF Len(s) <= n THEN s ELSE SubSeq(s, 1, n)

SeqsUpTo(S, n) == UNION {[1..k -> S] : k \in 0..n}

(***************************************************************************)
(* round(x, 4) of the quotient n / d, as a count of 1/Scale4: round half   *)
(* to even, which is what Python's round does on the exact value.          *)
(***************************************************************************)
RoundHalfEven(n, d) ==
    LET q == n \div d
        r == n % d
    IN  IF 2 * r < d THEN q
        ELSE IF 2 * r > d THEN q + 1
        ELSE IF q % 2 = 0 THEN q ELSE q + 1

RoundMoneyness(strike, spot) == RoundHalfEven(strike * Scale4, spot)

RoundIv(iv) == RoundHalfEven(iv, IvPerE4)

(***************************************************************************)
(* Upstream data.  A row of chain.calls / chain.puts keeps the two columns *)
(* the surface and the term structure read: strike and impliedVolatility.  *)
(* sk / ivk say what the field holds: a number ("num"), NaN ("nan") or a   *)
(* value that does not parse ("bad").                                      *)
(***************************************************************************)
Quote(strike, iv) == [strike |-> strike, sk |-> "num", iv |-> iv, ivk |-> "num"]

MissingIv(strike) == [strike |-> strike, sk |-> "num", iv |-> 0, ivk |-> "nan"]

BadStrike(iv) == [strike |-> 0, sk |-> "bad", iv |-> iv, ivk |-> "num"]

BadStrikeMissingIv == [strike |-> 0, sk |-> "bad", iv |-> 0, ivk |-> "nan"]

BadIv(strike) == [strike |-> strike, sk |-> "num", iv |-> 0, ivk |-> "bad"]

\* One expiration date of t.options: its days to expiration at request time,
\* whether t.option_chain(exp_date) succeeds, and the chain it returns.
Snapshot(dte, fetch, calls, puts) ==
    [dte |-> dte, fetch |-> fetch, calls |-> calls, puts |-> puts]

CallRows ==
    { Quote(99, 20000), Quote(101, 25006), Quote(150, 18000), Quote(100, 1),
      MissingIv(100), BadStrike(20000), BadStrikeMissingIv, BadIv(100) }

PutRows ==
    { Quote(80, 30000), Quote(120, 21000), Quote(121, 22000), Quote(100, 0),
      MissingIv(100), BadStrike(20000) }

Plain == Snapshot(40, TRUE, <<Quote(100, 30000)>>, <<>>)

Price(v) == [raises |-> FALSE, value |-> v]

NoHistory == [raises |-> FALSE, empty |-> TRUE, close |-> 0]

(***************************************************************************)
(* Price resolution (the "Get current price" block of iv_surface and of    *)
(* term_structure).  value 0 stands for None or 0: the code only tests     *)
(* `not price`.  The history fallback runs only when last_price raises.    *)
(***************************************************************************)
ResolvePrice ==
    IF ~last_price.raises
    THEN [raised |-> FALSE, price |-> last_price.value]
    ELSE IF hist.raises
    THEN [raised |-> TRUE, price |-> 0]
    ELSE IF hist.empty
    THEN [raised |-> FALSE, price |-> 0]
    ELSE [raised |-> FALSE, price |-> hist.close]

(***************************************************************************)
(* iv_surface.                                                             *)
(***************************************************************************)
\* Mutant: a date expiring today is kept.
ExpiredStrict(dte) == dte < 0

\* `if dte <= 0: continue`
Expired(dte) == dte <= 0

\* Mutant: the band without its bounds.
InBandStrict(strike, spot) ==
    /\ BandLoE4 * spot < strike * Scale4
    /\ strike * Scale4 < BandHiE4 * spot

\* `0.8 <= moneyness <= 1.2` with moneyness = strike / price
InBand(strike, spot) ==
    /\ BandLoE4 * spot <= strike * Scale4
    /\ strike * Scale4 <= BandHiE4 * spot

\* `float(row['impliedVolatility']) if not math.isnan(...) else 0`
IvOrZero(row) == IF row.ivk = "nan" THEN 0 ELSE row.iv

\* float(row['strike']) or math.isnan(row['impliedVolatility']) raises
RowRaises(row) == row.sk = "bad" \/ row.ivk = "bad"

SurfacePoint(row, spot, dte, type) ==
    [strike |-> row.strike, moneyness |-> RoundMoneyness(row.strike, spot),
     dte |-> dte, iv |-> RoundIv(IvOrZero(row)), type |-> type]

\* One `for _, row in chain.<side>.iterrows()` loop from row k on, appending
\* to acc in place; raised says the loop was left by an exception.
RECURSIVE SurfaceRows(_, _, _, _, _, _)
SurfaceRows(rows, k, type, dte, spot, acc) ==
    IF k > Len(rows) THEN [out |-> acc, raised |-> FALSE]
    ELSE IF RowRaises(rows[k]) THEN [out |-> acc, raised |-> TRUE]
    ELSE SurfaceRows(rows, k + 1, type, dte, spot,
            IF InBand(rows[k].strike, spot) /\ IvOrZero(rows[k]) > 0
            THEN Append(acc, SurfacePoint(rows[k], spot, dte, type))
            ELSE acc)

\* The body of one iteration of `for exp_date in expirations[:6]`, between
\* try and except, on the surface built so far.
SurfaceBody(snap, spot, acc) ==
    IF Expired(snap.dte) \/ ~snap.fetch THEN acc
    ELSE LET c == SurfaceRows(snap.calls, 1, "call", snap.dte, spot, acc)
         IN  IF c.raised THEN c.out
             ELSE SurfaceRows(snap.puts, 1, "put", snap.dte, spot, c.out).out

\* t.option_chain(exp_date) is called unless the dte test skipped the date.
Fetches(ep, snap, i) == IF Expired(snap.dte) THEN {} ELSE {<<ep, i>>}

NoResp == [status |-> 0, error |-> ""]

SurfaceBegin ==
    /\ pc["iv_surface"] = "idle"
    /\ \A e \in Endpoints : pc[e] \in {"idle", "done"}
    /\ LET r == ResolvePrice
       IN  IF expirations = <<>>
           THEN /\ pc' = [pc EXCEPT !["iv_surface"] = "done"]
                /\ resp' = [resp EXCEPT !["iv_surface"] =
                              [status |-> 200, error |-> "No options data"]]
                /\ UNCHANGED price
           ELSE IF r.raised
           THEN /\ pc' = [pc EXCEPT !["iv_surface"] = "done"]
                /\ resp' = [resp EXCEPT !["iv_surface"] =
                              [status |-> 500, error |-> "exception"]]
                /\ UNCHANGED price
           ELSE IF r.price = 0
           THEN /\ pc' = [pc EXCEPT !["iv_surface"] = "done"]
                /\ resp' = [resp EXCEPT !["iv_surface"] =
                              [status |-> 200, error |-> "Cannot determine spot price"]]
                /\ UNCHANGED price
           ELSE /\ pc' = [pc EXCEPT !["iv_surface"] = "loop"]
                /\ price' = [price EXCEPT !["iv_surface"] = r.price]
                /\ UNCHANGED resp
    /\ UNCHANGED <<upstream, idx, surface, raw_term, term_map, chains, chain_calls>>

SurfaceIter ==
    /\ pc["iv_surface"] = "loop"
    /\ idx["iv_surface"] <= Len(Prefix(expirations, SurfaceMaxExp))
    /\ LET i == idx["iv_surface"]
           snap == expirations[i]
       IN  /\ surface' = SurfaceBody(snap, price["iv_surface"], surface)
           /\ chain_calls' = chain_calls \cup Fetches("iv_surface", snap, i)
           /\ idx' = [idx EXCEPT !["iv_surface"] = i + 1]
    /\ UNCHANGED <<upstream, pc, price, raw_term, term_map, chains, resp>>

SurfaceReturn ==
    /\ pc["iv_surface"] = "loop"
    /\ idx["iv_surface"] > Len(Prefix(expirations, SurfaceMaxExp))
    /\ pc' = [pc EXCEPT !["iv_surface"] = "done"]
    /\ resp' = [resp EXCEPT !["iv_surface"] = [status |-> 200, error |-> ""]]
    /\ UNCHANGED <<upstream, price, idx, surface, raw_term, term_map, chains,
                   chain_calls>>

(***************************************************************************)
(* term_structure.                                                         *)
(***************************************************************************)
\* `calls['impliedVolatility'].notna() & (calls['impliedVolatility'] > 0)`
IvValid(row) == row.ivk = "num" /\ row.iv > 0

Dist(row, spot) == IF row.strike >= spot THEN row.strike - spot ELSE spot - row.strike

\* Mutant: the last minimum instead of the first.
RECURSIVE ArgMinLast(_, _, _, _)
ArgMinLast(rows, spot, k, best) ==
    IF k > Len(rows) THEN best
    ELSE ArgMinLast(rows, spot, k + 1,
                    IF Dist(rows[k], spot) <= Dist(rows[best], spot) THEN k ELSE best)

\* `(calls_valid['strike'] - price).abs().idxmin()`: the position of the first
\* minimum, as a scan from row k on with the best position so far.
RECURSIVE ArgMin(_, _, _, _)
ArgMin(rows, spot, k, best) ==
    IF k > Len(rows) THEN best
    ELSE ArgMin(rows, spot, k + 1,
                IF Dist(rows[k], spot) < Dist(rows[best], spot) THEN k ELSE best)

\* Mutant: puts are candidates too.
AtmCandidatesAnySide(snap) == SelectSeq(snap.calls \o snap.puts, IvValid)

\* The rows the ATM call is chosen among.
AtmCandidates(snap) == SelectSeq(snap.calls, IvValid)

\* A malformed value makes its column an object column: the comparison with 0
\* raises on a malformed IV, the subtraction on a malformed strike among the
\* valid-IV rows.  With a malformed strike only among the rows filtered out,
\* the subtraction works and pandas decides whether idxmin reduces an object
\* column: objraise is that outcome.
TermRaises(snap, objraise) ==
    \/ \E k \in DOMAIN snap.calls : snap.calls[k].ivk = "bad"
    \/ /\ AtmCandidates(snap) # <<>>
       /\ \/ \E k \in DOMAIN AtmCandidates(snap) : AtmCandidates(snap)[k].sk = "bad"
          \/ objraise /\ \E k \in DOMAIN snap.calls : snap.calls[k].sk = "bad"

ObjectColumn(snap) ==
    /\ ~Expired(snap.dte) /\ snap.fetch
    /\ \A k \in DOMAIN snap.calls : snap.calls[k].ivk # "bad"
    /\ AtmCandidates(snap) # <<>>
    /\ \A k \in DOMAIN AtmCandidates(snap) : AtmCandidates(snap)[k].sk # "bad"
    /\ \E k \in DOMAIN snap.calls : snap.calls[k].sk = "bad"

TermEntry(snap, i, spot) ==
    LET valid == AtmCandidates(snap)
        atm == ArgMin(valid, spot, 1, 1)
    IN  [expiration |-> i, dte |-> snap.dte, atm_iv |-> RoundIv(valid[atm].iv),
         atm_strike |-> valid[atm].strike]

\* The body of one iteration of `for exp_date in expirations[:8]`, between try
\* and except, on the raw list built so far; i stands for exp_date.
TermBody(snap, i, spot, acc, objraise) ==
    IF Expired(snap.dte) \/ ~snap.fetch THEN acc
    ELSE IF snap.calls = <<>> THEN acc
    ELSE IF TermRaises(snap, objraise) THEN acc
    ELSE IF AtmCandidates(snap) = <<>> THEN acc
    ELSE Append(acc, TermEntry(snap, i, spot))

EmptyMap == [l \in {} |-> 0]

Put(m, label, v) == [l \in DOMAIN m \cup {label} |-> IF l = label THEN v ELSE m[l]]

\* Mutant: a later entry overwrites the label.
TenorBranchOverwrite(dte, m) ==
    IF dte <= Tenor1W THEN "1W"
    ELSE IF dte <= Tenor2W THEN "2W"
    ELSE IF dte <= Tenor1M THEN "1M"
    ELSE IF dte <= Tenor2M THEN "2M"
    ELSE IF dte <= Tenor3M THEN "3M"
    ELSE "6M"

\* Mutant: a boundary value belongs to the upper bucket.
TenorBranchUpper(dte, m) ==
    IF dte < Tenor1W /\ "1W" \notin DOMAIN m THEN "1W"
    ELSE IF Tenor1W <= dte /\ dte < Tenor2W /\ "2W" \notin DOMAIN m THEN "2W"
    ELSE IF Tenor2W <= dte /\ dte < Tenor1M /\ "1M" \notin DOMAIN m THEN "1M"
    ELSE IF Tenor1M <= dte /\ dte < Tenor2M /\ "2M" \notin DOMAIN m THEN "2M"
    ELSE IF Tenor2M <= dte /\ dte < Tenor3M /\ "3M" \notin DOMAIN m THEN "3M"
    ELSE IF dte >= Tenor3M /\ "6M" \notin DOMAIN m THEN "6M"
    ELSE ""

\* The if / elif chain of "Map to standard tenors": the label the entry is
\* stored under, or "" when no branch is taken.
TenorBranch(dte, m) ==
    IF dte <= Tenor1W /\ "1W" \notin DOMAIN m THEN "1W"
    ELSE IF Tenor1W < dte /\ dte <= Tenor2W /\ "2W" \notin DOMAIN m THEN "2W"
    ELSE IF Tenor2W < dte /\ dte <= Tenor1M /\ "1M" \notin DOMAIN m THEN "1M"
    ELSE IF Tenor1M < dte /\ dte <= Tenor2M /\ "2M" \notin DOMAIN m THEN "2M"
    ELSE IF Tenor2M < dte /\ dte <= Tenor3M /\ "3M" \notin DOMAIN m THEN "3M"
    ELSE IF dte > Tenor3M /\ "6M" \notin DOMAIN m THEN "6M"
    ELSE ""

TenorStep(m, entry) ==
    LET label == TenorBranch(entry.dte, m)
    IN  IF label = "" THEN m ELSE Put(m, label, entry.atm_iv)

TermBegin ==
    /\ pc["term_structure"] = "idle"
    /\ \A e \in Endpoints : pc[e] \in {"idle", "done"}
    /\ LET r == ResolvePrice
       IN  IF expirations = <<>>
           THEN /\ pc' = [pc EXCEPT !["term_structure"] = "done"]
                /\ resp' = [resp EXCEPT !["term_structure"] =
                              [status |-> 200, error |-> "No options data"]]
                /\ UNCHANGED price
           ELSE IF r.raised
           THEN /\ pc' = [pc EXCEPT !["term_structure"] = "done"]
                /\ resp' = [resp EXCEPT !["term_structure"] =
                              [status |-> 500, error |-> "exception"]]
                /\ UNCHANGED price
           ELSE IF r.price = 0
           THEN /\ pc' = [pc EXCEPT !["term_structure"] = "done"]
                /\ resp' = [resp EXCEPT !["term_structure"] =
                              [status |-> 200, error |-> "Cannot determine spot price"]]
                /\ UNCHANGED price
           ELSE /\ pc' = [pc EXCEPT !["term_structure"] = "loop"]
                /\ price' = [price EXCEPT !["term_structure"] = r.price]
                /\ UNCHANGED resp
    /\ UNCHANGED <<upstream, idx, surface, raw_term, term_map, chains, chain_calls>>

\* One iteration of the extraction loop; after the last one the bucketing
\* loop starts at the first raw entry.
TermIter ==
    /\ pc["term_structure"] = "loop"
    /\ LET i == idx["term_structure"]
           snap == expirations[i]
           last == i = Len(Prefix(expirations, TermMaxExp))
       IN  /\ \E objraise \in (IF ObjectColumn(snap) THEN BOOLEAN ELSE {FALSE}) :
                 raw_term' = TermBody(snap, i, price["term_structure"], raw_term, objraise)
           /\ chain_calls' = chain_calls \cup Fetches("term_structure", snap, i)
           /\ idx' = [idx EXCEPT !["term_structure"] = IF last THEN 1 ELSE i + 1]
           /\ pc' = [pc EXCEPT !["term_structure"] = IF last THEN "bucket" ELSE "loop"]
    /\ UNCHANGED <<upstream, price, surface, term_map, chains, resp>>

\* One iteration of `for entry in raw_term`.
TermBucket ==
    /\ pc["term_structure"] = "bucket"
    /\ idx["term_structure"] <= Len(raw_term)
    /\ term_map' = TenorStep(term_map, raw_term[idx["term_structure"]])
    /\ idx' = [idx EXCEPT !["term_structure"] = @ + 1]
    /\ UNCHANGED <<upstream, pc, price, surface, raw_term, chains, chain_calls, resp>>

TermReturn ==
    /\ pc["term_structure"] = "bucket"
    /\ idx["term_structure"] > Len(raw_term)
    /\ pc' = [pc EXCEPT !["term_structure"] = "done"]
    /\ resp' = [resp EXCEPT !["term_structure"] = [status |-> 200, error |-> ""]]
    /\ UNCHANGED <<upstream, price, idx, surface, raw_term, term_map, chains,
                   chain_calls>>

(***************************************************************************)
(* options.  Of the seven columns a quote keeps, the model keeps strike and *)
(* impliedVolatility; the other five are normalised like the latter.       *)
(***************************************************************************)
NormaliseRow(row) == [strike |-> row.strike, impliedVolatility |-> IvOrZero(row)]

NormaliseRows(rows) == [k \in DOMAIN rows |-> NormaliseRow(rows[k])]

\* The body of one iteration of `for exp_date in expirations[:4]`; a row that
\* raises leaves the loop before chains.append.
OptionsBody(snap, i, acc) ==
    IF ~snap.fetch THEN acc
    ELSE IF \E k \in DOMAIN snap.calls : RowRaises(snap.calls[k]) THEN acc
    ELSE IF \E k \in DOMAIN snap.puts : RowRaises(snap.puts[k]) THEN acc
    ELSE Append(acc, [expiration |-> i, dte |-> snap.dte,
                      calls |-> NormaliseRows(snap.calls),
                      puts |-> NormaliseRows(snap.puts)])

RECURSIVE OptionsChains(_, _, _)
OptionsChains(exps, i, acc) ==
    IF i > Len(exps) THEN acc
    ELSE OptionsChains(exps, i + 1, OptionsBody(exps[i], i, acc))

\* The whole handler: it keeps no position between its steps that any other
\* handler or claim reads.
OptionsRequest ==
    /\ pc["options"] = "idle"
    /\ \A e \in Endpoints : pc[e] \in {"idle", "done"}
    /\ pc' = [pc EXCEPT !["options"] = "done"]
    /\ IF expirations = <<>>
       THEN /\ resp' = [resp EXCEPT !["options"] =
                          [status |-> 200, error |-> "No options data available"]]
            /\ UNCHANGED <<chains, chain_calls>>
       ELSE /\ chains' = OptionsChains(Prefix(expirations, OptionsMaxExp), 1, <<>>)
            /\ chain_calls' = chain_calls \cup
                   {<<"options", i>> : i \in 1..Len(Prefix(expirations, OptionsMaxExp))}
            /\ resp' = [resp EXCEPT !["options"] = [status |-> 200, error |-> ""]]
    /\ UNCHANGED <<upstream, price, idx, surface, raw_term, term_map>>

(***************************************************************************)
(* Initial states: the handlers idle, the upstream data drawn from a       *)
(* family of inputs.                                                       *)
(***************************************************************************)
Idle ==
    /\ pc = [e \in Endpoints |-> "idle"]
    /\ price = [e \in Endpoints |-> 0]
    /\ idx = [e \in Endpoints |-> 1]
    /\ surface = <<>>
    /\ raw_term = <<>>
    /\ term_map = EmptyMap
    /\ chains = <<>>
    /\ chain_calls = {}
    /\ resp = [e \in Endpoints |-> NoResp]

\* One chain with arbitrary rows, followed by a well-formed one.
InitRich ==
    /\ last_price = Price(100)
    /\ hist = NoHistory
    /\ \E calls \in SeqsUpTo(CallRows, MaxCalls), puts \in SeqsUpTo(PutRows, MaxPuts) :
           expirations = <<Snapshot(30, TRUE, calls, puts), Plain>>
    /\ Idle

\* Many expiration dates, live or expired, each with one call and one put.
LongPool ==
    { Snapshot(30, TRUE, <<Quote(99, 20000)>>, <<Quote(101, 25006)>>),
      Snapshot(0, TRUE, <<Quote(99, 20000)>>, <<Quote(101, 25006)>>) }

InitLong ==
    /\ last_price = Price(100)
    /\ hist = NoHistory
    /\ expirations \in SeqsUpTo(LongPool, MaxLongExp)
    /\ Idle

InitSurface == InitRich \/ InitLong

NextSurface == SurfaceBegin \/ SurfaceIter \/ SurfaceReturn

SpecSurface == InitSurface /\ [][NextSurface]_vars

\* Up to MaxTenorExp dates on either side of every tenor boundary, each with
\* one call of its own IV.
TenorDtes == {0, Tenor1W, Tenor1W + 1, Tenor2W, Tenor2W + 1, Tenor1M, Tenor1M + 1,
              Tenor2M, Tenor2M + 1, Tenor3M, Tenor3M + 1}

TenorPool ==
    {Snapshot(d, TRUE, <<Quote(100, iv)>>, <<>>) : d \in TenorDtes, iv \in {20000, 25006}}

InitTenor ==
    /\ last_price = Price(100)
    /\ hist = NoHistory
    /\ expirations \in SeqsUpTo(TenorPool, MaxTenorExp)
    /\ Idle

InitTerm == InitRich \/ InitTenor \/ InitLong

NextTerm == TermBegin \/ TermIter \/ TermBucket \/ TermReturn

SpecTerm == InitTerm /\ [][NextTerm]_vars

\* Up to MaxMixExp dates of mixed kinds: a call outside the band, valid puts
\* under invalid calls, an expired date, a failing fetch, the nearest strike
\* without a valid IV, a malformed call.
MixedPool ==
    { Snapshot(30, TRUE, <<Quote(150, 18000)>>, <<>>),
      Snapshot(30, TRUE, <<MissingIv(100)>>, <<Quote(100, 21000)>>),
      Snapshot(-1, TRUE, <<Quote(100, 20000)>>, <<Quote(100, 21000)>>),
      Snapshot(30, FALSE, <<Quote(100, 20000)>>, <<>>),
      Snapshot(60, TRUE, <<MissingIv(100), Quote(150, 18000)>>, <<Quote(100, 0)>>),
      Snapshot(30, TRUE, <<Quote(100, 20000), BadIv(100)>>, <<>>) }

InitMixed ==
    /\ last_price = Price(100)
    /\ hist = NoHistory
    /\ expirations \in SeqsUpTo(MixedPool, MaxMixExp)
    /\ Idle

\* Every outcome of the two price lookups, over no dates and over one.
InitSpot ==
    /\ last_price \in {[raises |-> TRUE, value |-> 0], Price(0), Price(100)}
    /\ hist \in {[raises |-> TRUE, empty |-> FALSE, close |-> 0], NoHistory,
                 [raises |-> FALSE, empty |-> FALSE, close |-> 0],
                 [raises |-> FALSE, empty |-> FALSE, close |-> 100]}
    /\ expirations \in {<<>>, <<Plain>>}
    /\ Idle

Init == InitMixed \/ InitSpot \/ InitLong

\* The handlers share nothing, so requests are served one after the other, in
\* any order.
Next ==
    \/ OptionsRequest
    \/ SurfaceBegin \/ SurfaceIter \/ SurfaceReturn
    \/ TermBegin \/ TermIter \/ TermBucket \/ TermReturn

Spec == Init /\ [][Next]_vars

(***************************************************************************)
(* The claims.  What a claim says of the input is written here from the    *)
(* claim's words, with its own numbers, not with the handlers' operators.  *)
(***************************************************************************)
Done(ep) == pc[ep] = "done" /\ resp[ep] = [status |-> 200, error |-> ""]

Min(S) == CHOOSE x \in S : \A y \in S : x <= y

ClaimFirst(n) == 1..(IF Len(expirations) <= n THEN Len(expirations) ELSE n)

ClaimValidIv(row) == row.ivk = "num" /\ row.iv > 0

ClaimInBand(row, spot) == 8 * spot <= 10 * row.strike /\ 10 * row.strike <= 12 * spot

ClaimRowFails(row) == row.sk = "bad" \/ row.ivk = "bad"

ClaimLabels == {"1W", "2W", "1M", "2M", "3M", "6M"}

ClaimRange(label, dte) ==
    CASE label = "1W" -> dte <= 10
      [] label = "2W" -> 10 < dte /\ dte <= 20
      [] label = "1M" -> 20 < dte /\ dte <= 45
      [] label = "2M" -> 45 < dte /\ dte <= 75
      [] label = "3M" -> 75 < dte /\ dte <= 120
      [] label = "6M" -> dte > 120

\* The raw entries the bucketing loop has gone through.
Bucketed ==
    IF pc["term_structure"] = "bucket" THEN idx["term_structure"] - 1
    ELSE IF pc["term_structure"] = "done" THEN Len(raw_term) ELSE 0

InRange(label, n) == {k \in 1..n : ClaimRange(label, raw_term[k].dte)}

EntriesOf(i) == {k \in DOMAIN raw_term : raw_term[k].expiration = i}

\* C1: every point of the surface has, as emitted (rounded to 4 decimal
\* places), a moneyness between 0.8 and 1.2 and an iv above 0.
C1_EmittedInBandAndPositive ==
    \A k \in DOMAIN surface :
        /\ 8000 <= surface[k].moneyness /\ surface[k].moneyness <= 12000
        /\ surface[k].iv > 0

\* C2: a date whose dte is <= 0 gives no surface point, no raw term-structure
\* entry and no tenor value, wherever it stands among the dates, and neither
\* handler fetches its chain.
C2_ExpiredGiveNothing ==
    /\ \A k \in DOMAIN surface : surface[k].dte > 0
    /\ \A k \in DOMAIN raw_term :
           raw_term[k].dte > 0 /\ expirations[raw_term[k].expiration].dte > 0
    /\ \A l \in DOMAIN term_map :
           \E k \in DOMAIN raw_term :
               /\ raw_term[k].atm_iv = term_map[l]
               /\ expirations[raw_term[k].expiration].dte > 0
    /\ \A c \in chain_calls :
           c[1] \in {"iv_surface", "term_structure"} => expirations[c[2]].dte > 0

C2_Witness ==
    /\ Done("iv_surface") /\ Done("term_structure")
    /\ Len(expirations) >= 3
    /\ expirations[1].dte > 0 /\ expirations[2].dte <= 0 /\ expirations[3].dte > 0
    /\ \E k \in DOMAIN expirations[2].calls : ClaimValidIv(expirations[2].calls[k])
    /\ \E k \in DOMAIN expirations[2].puts : ClaimValidIv(expirations[2].puts[k])
    /\ surface # <<>> /\ raw_term # <<>> /\ DOMAIN term_map # {}

\* C3: once the bucketing loop has gone through some raw entries, each label
\* of the mapping holds the atm_iv of the first of them whose dte is in the
\* label's range, so a later entry of that range changes nothing.
C3_FirstWins ==
    \A l \in DOMAIN term_map :
        /\ InRange(l, Bucketed) # {}
        /\ term_map[l] = raw_term[Min(InRange(l, Bucketed))].atm_iv

C3_Witness ==
    /\ Done("term_structure")
    /\ Len(raw_term) = 2
    /\ raw_term[1].dte = 21 /\ raw_term[2].dte = 45
    /\ raw_term[1].atm_iv # raw_term[2].atm_iv
    /\ term_map["1M"] = raw_term[1].atm_iv

\* C4: when no spot price can be had (last_price gives nothing or raises, and
\* the history gives nothing or raises), iv_surface and term_structure fetch
\* no chain and answer 200 with an empty result and "Cannot determine spot
\* price".
C4_UnresolvedSpotIsNoError ==
    \A ep \in {"iv_surface", "term_structure"} :
        ( /\ pc[ep] = "done"
          /\ expirations # <<>>
          /\ last_price.raises \/ last_price.value = 0
          /\ hist.raises \/ hist.empty \/ hist.close = 0 )
        => /\ resp[ep] = [status |-> 200, error |-> "Cannot determine spot price"]
           /\ surface = <<>> /\ raw_term = <<>> /\ DOMAIN term_map = {}
           /\ \A c \in chain_calls : c[1] # ep

\* The dates a handler fails on, and the list it would return without them.
ClaimSurfaceFails(snap) ==
    /\ snap.dte > 0
    /\ \/ ~snap.fetch
       \/ \E k \in DOMAIN snap.calls : ClaimRowFails(snap.calls[k])
       \/ \E k \in DOMAIN snap.puts : ClaimRowFails(snap.puts[k])

ClaimTermFails(snap) ==
    /\ snap.dte > 0
    /\ \/ ~snap.fetch
       \/ \E k \in DOMAIN snap.calls : ClaimRowFails(snap.calls[k])

RECURSIVE SurfaceWithout(_, _, _)
SurfaceWithout(exps, i, spot) ==
    IF i = 0 THEN <<>>
    ELSE IF ClaimSurfaceFails(exps[i]) THEN SurfaceWithout(exps, i - 1, spot)
    ELSE SurfaceBody(exps[i], spot, SurfaceWithout(exps, i - 1, spot))

\* C5: a date whose processing fails is skipped whole: the surface (and the
\* raw term-structure list) returned is the one the other dates alone give.
C5_FailingSnapshotSkippedWhole ==
    /\ Done("iv_surface") =>
           surface = SurfaceWithout(expirations, Len(Prefix(expirations, SurfaceMaxExp)),
                                    price["iv_surface"])
    /\ Done("term_structure") =>
           \A k \in DOMAIN raw_term : ~ClaimTermFails(expirations[raw_term[k].expiration])

\* C6: the ATM call of a raw entry is, among the date's calls with a valid IV
\* above 0, the first one at the least distance |strike - spot|, and
\* atm_strike and atm_iv are both that call's.
C6_AtmIsFirstNearest ==
    \A e \in DOMAIN raw_term :
        LET valid == SelectSeq(expirations[raw_term[e].expiration].calls, ClaimValidIv)
            spot == price["term_structure"]
        IN  \E k \in DOMAIN valid :
                /\ raw_term[e].atm_strike = valid[k].strike
                /\ raw_term[e].atm_iv = RoundIv(valid[k].iv)
                /\ \A j \in DOMAIN valid : Dist(valid[k], spot) <= Dist(valid[j], spot)
                /\ \A j \in 1..(k - 1) : Dist(valid[k], spot) < Dist(valid[j], spot)

C6_Witness ==
    /\ Done("term_structure")
    /\ price["term_structure"] = 100
    /\ expirations[1].calls = <<Quote(101, 25006), Quote(99, 20000)>>
    /\ raw_term # <<>>
    /\ raw_term[1].expiration = 1
    /\ raw_term[1].atm_strike = 101 /\ raw_term[1].atm_iv = 2501

\* C7: a missing (NaN) implied volatility is normalised to something other
\* than 0 in the quotes /api/options returns.
C7_MissingIvIsNotZero ==
    pc["options"] = "done" =>
        \A c \in DOMAIN chains :
            LET snap == expirations[chains[c].expiration]
            IN  /\ \A k \in DOMAIN snap.calls :
                       snap.calls[k].ivk = "nan" => chains[c].calls[k].impliedVolatility # 0
                /\ \A k \in DOMAIN snap.puts :
                       snap.puts[k].ivk = "nan" => chains[c].puts[k].impliedVolatility # 0

\* The points the claim expects of one side of a chain, and of the dates.
ClaimPoints(rows, type, dte, spot) ==
    LET ok == SelectSeq(rows, LAMBDA r : ClaimValidIv(r) /\ ClaimInBand(r, spot))
    IN  [k \in DOMAIN ok |-> SurfacePoint(ok[k], spot, dte, type)]

RECURSIVE ClaimSurface(_, _, _)
ClaimSurface(exps, i, spot) ==
    IF i = 0 THEN <<>>
    ELSE ClaimSurface(exps, i - 1, spot) \o
         (IF exps[i].dte > 0
          THEN ClaimPoints(exps[i].calls, "call", exps[i].dte, spot) \o
               ClaimPoints(exps[i].puts, "put", exps[i].dte, spot)
          ELSE <<>>)

ClaimNoSurfaceError == \A i \in ClaimFirst(6) : ~ClaimSurfaceFails(expirations[i])

\* C8: with a spot above 0 and no processing error, the surface is, in this
\* order, one point for each call, then each put, of each of the first 6
\* dates with dte > 0, whose IV is valid and above 0 and whose strike / spot
\* is in [0.8, 1.2], bounds included; nothing is sorted or removed.
C8_SurfaceCompleteInOrder ==
    (Done("iv_surface") /\ ClaimNoSurfaceError) =>
        surface = ClaimSurface(expirations, Cardinality(ClaimFirst(6)), price["iv_surface"])

C8_Witness ==
    /\ Done("iv_surface") /\ ClaimNoSurfaceError
    /\ price["iv_surface"] = 100
    /\ expirations[1].calls = <<Quote(150, 18000), Quote(99, 20000)>>
    /\ expirations[1].puts = <<Quote(120, 21000)>>
    /\ Len(surface) = 3
    /\ surface[1].type = "call" /\ surface[1].strike = 99
    /\ surface[2].type = "put" /\ surface[2].moneyness = 12000
    /\ surface[3].dte = 40

\* C9: the six ranges cover every raw entry exactly once, the boundary values
\* 10, 20, 45, 75 and 120 in the lower bucket; when the handler is done, a
\* label is in the mapping exactly when some raw entry is in its range, and
\* the value under it is that of an entry of that range.
C9_TenorsTotalExclusive ==
    /\ DOMAIN term_map \subseteq ClaimLabels
    /\ \A k \in DOMAIN raw_term :
           /\ raw_term[k].dte >= 1
           /\ Cardinality({l \in ClaimLabels : ClaimRange(l, raw_term[k].dte)}) = 1
    /\ \A l \in DOMAIN term_map :
           \E k \in InRange(l, Len(raw_term)) : term_map[l] = raw_term[k].atm_iv
    /\ Done("term_structure") =>
           \A l \in ClaimLabels : l \in DOMAIN term_map <=> InRange(l, Len(raw_term)) # {}

C9_Witness ==
    /\ Done("term_structure")
    /\ Len(raw_term) = 2
    /\ raw_term[1].dte = 121 /\ raw_term[2].dte = 120
    /\ raw_term[1].atm_iv # raw_term[2].atm_iv
    /\ DOMAIN term_map = {"3M", "6M"}
    /\ term_map["3M"] = raw_term[2].atm_iv

\* The dates the term structure reads without error, and those with a call of
\* valid IV above 0.
ClaimHasValidCall(snap) == \E k \in DOMAIN snap.calls : ClaimValidIv(snap.calls[k])

\* C10 as stated: term_structure gives exactly one entry for each of the first
\* 8 dates with dte > 0 and a call of valid IV above 0, and none for the
\* other dates.
C10_OneEntryPerValidDate ==
    Done("term_structure") =>
        \A i \in DOMAIN expirations :
            Cardinality(EntriesOf(i)) =
                (IF /\ i \in ClaimFirst(8)
                    /\ expirations[i].dte > 0
                    /\ ClaimHasValidCall(expirations[i])
                 THEN 1 ELSE 0)

\* C10 as amended: exactly one entry for each of the first 8 dates with
\* dte > 0 whose chain is fetched, whose call rows all parse and which has a
\* call of valid IV above 0; none for a date past the first 8, with dte <= 0
\* or without such a call, whatever its puts; the entry is the valid-IV call
\* nearest to spot whether or not it is in the band, and every surface point
\* is in the band.
C10_FiltersIndependent ==
    /\ Done("term_structure") =>
           \A i \in DOMAIN expirations :
               /\ Cardinality(EntriesOf(i)) <= 1
               /\ ( /\ i \in ClaimFirst(8)
                    /\ expirations[i].dte > 0
                    /\ ~ClaimTermFails(expirations[i])
                    /\ ClaimHasValidCall(expirations[i]) )
                  => Cardinality(EntriesOf(i)) = 1
               /\ ( \/ i \notin ClaimFirst(8)
                    \/ expirations[i].dte <= 0
                    \/ ~ClaimHasValidCall(expirations[i]) )
                  => EntriesOf(i) = {}
    /\ \A e \in DOMAIN raw_term :
           \A k \in DOMAIN expirations[raw_term[e].expiration].calls :
               LET row == expirations[raw_term[e].expiration].calls[k]
                   spot == price["term_structure"]
               IN  (ClaimValidIv(row) /\ row.sk = "num") =>
                       Dist([strike |-> raw_term[e].atm_strike], spot) <= Dist(row, spot)
    /\ \A k \in DOMAIN surface :
           ClaimInBand(surface[k], price["iv_surface"])

C10_Witness ==
    /\ Done("term_structure") /\ Done("iv_surface")
    /\ Len(expirations) = 2
    /\ expirations[1].calls = <<MissingIv(100)>>
    /\ expirations[1].puts = <<Quote(100, 21000)>>
    /\ expirations[2].calls = <<Quote(150, 18000)>>
    /\ Len(raw_term) = 1
    /\ raw_term[1].expiration = 2 /\ raw_term[1].atm_strike = 150
    /\ Len(surface) = 1 /\ surface[1].type = "put"

====
